---- MODULE Spec2Model ----
(***************************************************************************)
(* EcoMeal AI front end: the two panels RecipeGenerator and MenuAnalyzer   *)
(* (item collector, submit handler, pending HTTP request) and the App tab  *)
(* shell that mounts exactly one of them.                                  *)
(*                                                                         *)
(* Only the active panel is mounted (App, MenuAnalyzer.tsx:308), so the    *)
(* variables items .. error hold the useState cells of the one mounted     *)
(* panel instance; activeTab tells which component it is.  Text typed into *)
(* the item input is a sequence of characters, so that trim() is computed; *)
(* the modifier field is never trimmed and is a plain string.              *)
(*                                                                         *)
(* Environment: the collaborator service answers a POST either with a 2xx  *)
(* JSON object of the declared response shape (a truthy value, one of      *)
(* Payloads) or the request fails (axios rejects).                         *)
(***************************************************************************)
EXTENDS Integers, Sequences, FiniteSets, TLC

VARIABLES activeTab, items, newItem, modifier, result, loading, error,
          pending, orphans, last

vars == <<activeTab, items, newItem, modifier, result, loading, error,
          pending, orphans, last>>

\* ---------------------------------------------------------------- bounds
\* most requests left pending by unmounted panel instances
MaxOrphans == 1
\* most requests one instance has pending when its handler is called directly
MaxPending == 2

\* ------------------------------------------------------------- constants
Tabs == {"recipe", "menu"}
\* the texts typed into the item input: empty, blank, plain, with a leading,
\* a trailing and both blanks, with an inner blank, and a second plain text
Typed ==
  { <<>>, <<" ">>, <<"a">>, <<" ", "a">>, <<"a", " ">>, <<" ", "a", " ">>,
    <<"b">>, <<"a", " ", "b">> }
Modifiers == {"", " ", "v"}
\* response bodies, told apart by the score they carry
Payloads == {"R1", "R2", "R3", "R4", "R5"}
Null == "null"

ValidationMsg(tab) ==
  IF tab = "recipe" THEN "Please add at least one ingredient"
  ELSE "Please add at least one menu item"

FailureMsg(tab) ==
  IF tab = "recipe" THEN "Failed to generate recipe. Please try again."
  ELSE "Failed to analyze menu. Please try again."

Endpoint(tab) ==
  IF tab = "recipe" THEN "http://localhost:8001/generate-recipe"
  ELSE "http://localhost:8001/restaurant-analysis"

\* ----------------------------------------------------- String.prototype.trim
IsSpace(c) == c = " "

RECURSIVE TrimStart(_)
TrimStart(s) ==
  IF Len(s) > 0 /\ IsSpace(Head(s)) THEN TrimStart(Tail(s)) ELSE s

RECURSIVE TrimEnd(_)
TrimEnd(s) ==
  IF Len(s) > 0 /\ IsSpace(s[Len(s)]) THEN TrimEnd(SubSeq(s, 1, Len(s) - 1))
  ELSE s

Trim(s) == TrimEnd(TrimStart(s))

\* ------------------------------------------------------------ item collector
\* Array.prototype.includes on strings: exact match
Includes(its, s) == \E k \in 1..Len(its) : its[k] = s

\* variant: the duplicate test looks for the untrimmed input
AddAcceptsUntrimmed(its, raw) == Trim(raw) # <<>> /\ ~Includes(its, raw)

\* the condition of the if in addIngredient / addMenuItem ('' is falsy)
AddAccepts(its, raw) == Trim(raw) # <<>> /\ ~Includes(its, Trim(raw))

\* the collection after add
AddItems(its, raw) ==
  IF AddAccepts(its, raw) THEN Append(its, Trim(raw)) ELSE its

\* the pending input after add
AddInput(its, raw) == IF AddAccepts(its, raw) THEN <<>> ELSE raw

\* items.filter((_, i) => i !== index), i the 0-based position
RECURSIVE FilterFrom(_, _, _)
FilterFrom(its, index, i) ==
  IF i >= Len(its) THEN <<>>
  ELSE (IF i # index THEN <<its[i + 1]>> ELSE <<>>) \o FilterFrom(its, index, i + 1)

\* variant: the position is taken as 1-based
RemoveItemsOffByOne(its, index) == FilterFrom(its, index - 1, 0)

RemoveItems(its, index) == FilterFrom(its, index, 0)

\* ------------------------------------------------------------ request body
JsonNull == [tag |-> "null", text |-> ""]
JsonString(s) == [tag |-> "string", text |-> s]

\* variant: both panels fall back to null
ModifierValueNull(tab, m) == IF m # "" THEN JsonString(m) ELSE JsonNull

\* dietaryPreferences || null  /  restaurantName || 'Restaurant'
ModifierValue(tab, m) ==
  IF m # "" THEN JsonString(m)
  ELSE IF tab = "recipe" THEN JsonNull ELSE JsonString("Restaurant")

Body(tab, its, m) ==
  [url |-> Endpoint(tab), items |-> its, modifier |-> ModifierValue(tab, m)]

NoBody == [url |-> "", items |-> <<>>, modifier |-> JsonNull]

\* the last handler that ran, with what it was given or sent
\* (sent: how many times the handler called axios.post)
Event(op, idx, data, sent, body) ==
  [op |-> op, idx |-> idx, data |-> data, sent |-> sent, body |-> body]

\* --------------------------------------------------------- score display
\* the score field of a response (eco_score / overall_eco_score): the three
\* ratings, a value the switch does not know, and a rating in another case
EcoScore(d) ==
  CASE d = "R1" -> "green"
    [] d = "R2" -> "yellow"
    [] d = "R3" -> "red"
    [] d = "R4" -> "unknown"
    [] OTHER -> "Green"

getScoreColor(score) ==
  CASE score = "green" -> "text-green-600 bg-green-100"
    [] score = "yellow" -> "text-yellow-600 bg-yellow-100"
    [] score = "red" -> "text-red-600 bg-red-100"
    [] OTHER -> "text-gray-600 bg-gray-100"

\* RecipeGenerator: the emoji check mark, warning sign and question mark
getScoreIconRecipe(score) ==
  CASE score = "green" -> "emoji white check mark"
    [] score = "yellow" -> "emoji warning sign"
    [] score = "red" -> "emoji warning sign"
    [] OTHER -> "emoji question mark"

\* MenuAnalyzer: lucide-react icons
getScoreIconMenu(score) ==
  CASE score = "green" -> "CheckCircle"
    [] score = "yellow" -> "AlertCircle"
    [] score = "red" -> "XCircle"
    [] OTHER -> "AlertCircle"

getScoreIcon(tab, score) ==
  IF tab = "recipe" THEN getScoreIconRecipe(score) ELSE getScoreIconMenu(score)

\* ------------------------------------------------------------------ render
\* variant: the button is disabled on an empty collection only
SubmitDisabledNoLoading == Len(items) = 0

\* disabled={loading || ingredients.length === 0}
SubmitDisabled == loading \/ Len(items) = 0

\* what the panel shows: spinner, error alert, result, or the placeholder
Status ==
  IF loading THEN "loading"
  ELSE IF error # "" THEN "error"
  ELSE IF result # Null THEN "success"
  ELSE "idle"

\* the score badge of the displayed result
ShownColor == getScoreColor(EcoScore(result))

ShownIcon == getScoreIcon(activeTab, EcoScore(result))

\* ------------------------------------------------------------------- state
TypeOK ==
  /\ activeTab \in Tabs
  /\ \A k \in 1..Len(items) : \E s \in Typed : items[k] = Trim(s) /\ items[k] # <<>>
  /\ \A j, k \in 1..Len(items) : items[j] = items[k] => j = k
  /\ newItem \in Typed
  /\ modifier \in Modifiers
  /\ result \in Payloads \cup {Null}
  /\ loading \in BOOLEAN
  /\ error \in {""} \cup {ValidationMsg(t) : t \in Tabs} \cup {FailureMsg(t) : t \in Tabs}
  /\ pending \in 0..MaxPending
  /\ orphans \in [Tabs -> 0..MaxOrphans]

Init ==
  /\ activeTab = "recipe"
  /\ items = <<>>
  /\ newItem = <<>>
  /\ modifier = ""
  /\ result = Null
  /\ loading = FALSE
  /\ error = ""
  /\ pending = 0
  /\ orphans = [t \in Tabs |-> 0]
  /\ last = Event("mount", 0, Null, 0, NoBody)

\* ------------------------------------------------------------ input fields
\* onChange of the item input
SetNewItem(s) ==
  /\ newItem' = s
  /\ last' = Event("type", 0, Null, 0, NoBody)
  /\ UNCHANGED <<activeTab, items, modifier, result, loading, error, pending, orphans>>

\* onChange of the dietary-preferences / restaurant-name input
SetModifier(m) ==
  /\ modifier' = m
  /\ last' = Event("modifier", 0, Null, 0, NoBody)
  /\ UNCHANGED <<activeTab, items, newItem, result, loading, error, pending, orphans>>

\* ---------------------------------------------------------------- add
Add ==
  /\ items' = AddItems(items, newItem)
  /\ newItem' = AddInput(items, newItem)
  /\ last' = Event("add", 0, Null, 0, NoBody)
  /\ UNCHANGED <<activeTab, modifier, result, loading, error, pending, orphans>>

addIngredient == activeTab = "recipe" /\ Add

addMenuItem == activeTab = "menu" /\ Add

\* ---------------------------------------------------------------- remove
Remove(index) ==
  /\ items' = RemoveItems(items, index)
  /\ last' = Event("remove", index, Null, 0, NoBody)
  /\ UNCHANGED <<activeTab, newItem, modifier, result, loading, error, pending, orphans>>

removeIngredient(index) == activeTab = "recipe" /\ Remove(index)

removeMenuItem(index) == activeTab = "menu" /\ Remove(index)

\* ---------------------------------------------------------------- submit
\* generateRecipe / analyzeMenu up to the await: the setters it calls and the
\* request it sends, as functions of the state the handler closes over
\* variant: the previous error is not cleared
SubmitErrorKept(tab, its, err) == IF Len(its) = 0 THEN ValidationMsg(tab) ELSE err

SubmitError(tab, its, err) == IF Len(its) = 0 THEN ValidationMsg(tab) ELSE ""

SubmitLoading(its, ld) == IF Len(its) = 0 THEN ld ELSE TRUE

\* variant: the previous result is not cleared
SubmitResultKept(its, r) == r

SubmitResult(its, r) == IF Len(its) = 0 THEN r ELSE Null

\* variant: no early return after the validation error
SubmitPostsNoReturn(its) == 1

\* number of axios.post calls of one run of the handler
SubmitPosts(its) == IF Len(its) = 0 THEN 0 ELSE 1

SubmitBody(tab, its, m) == IF Len(its) = 0 THEN NoBody ELSE Body(tab, its, m)

Submit ==
  /\ error' = SubmitError(activeTab, items, error)
  /\ loading' = SubmitLoading(items, loading)
  /\ result' = SubmitResult(items, result)
  /\ pending' = pending + SubmitPosts(items)
  /\ last' = Event("submit", 0, Null, SubmitPosts(items),
                   SubmitBody(activeTab, items, modifier))
  /\ UNCHANGED <<activeTab, items, newItem, modifier, orphans>>

generateRecipe == activeTab = "recipe" /\ Submit

analyzeMenu == activeTab = "menu" /\ Submit

\* ------------------------------------------------- the request completes
\* after the await: try { setRecipe(response.data) } finally { setLoading(false) }
SuccessResult(d, r) == d

SuccessError(err) == err

Succeed(d) ==
  /\ pending > 0
  /\ result' = SuccessResult(d, result)
  /\ error' = SuccessError(error)
  /\ loading' = FALSE
  /\ pending' = pending - 1
  /\ last' = Event("success", 0, d, 0, NoBody)
  /\ UNCHANGED <<activeTab, items, newItem, modifier, orphans>>

\* catch { setError(...) } finally { setLoading(false) }; the catch block
\* sends nothing
\* variant: the message of the other panel
FailErrorSwapped(tab, err) == FailureMsg(IF tab = "recipe" THEN "menu" ELSE "recipe")

FailError(tab, err) == FailureMsg(tab)

FailResult(r) == r

\* variant: no finally block
FailLoadingKept(ld) == ld

FailLoading(ld) == FALSE

\* variant: the catch block retries once
FailPostsRetry(tab) == 1

\* number of axios.post calls of the catch block
FailPosts(tab) == 0

Fail ==
  /\ pending > 0
  /\ error' = FailError(activeTab, error)
  /\ result' = FailResult(result)
  /\ loading' = FailLoading(loading)
  /\ pending' = pending - 1 + FailPosts(activeTab)
  /\ last' = Event("failure", 0, Null, FailPosts(activeTab), NoBody)
  /\ UNCHANGED <<activeTab, items, newItem, modifier, orphans>>

\* ------------------------------------------------------------- tab shell
\* variant: the panel is hidden, not unmounted, and keeps its collection
SwitchTabKeepsItems(t) ==
  /\ t # activeTab
  /\ pending + orphans["recipe"] + orphans["menu"] <= MaxOrphans
  /\ activeTab' = t
  /\ newItem' = <<>>
  /\ modifier' = ""
  /\ result' = Null
  /\ loading' = FALSE
  /\ error' = ""
  /\ pending' = 0
  /\ orphans' = [orphans EXCEPT ![activeTab] = @ + pending]
  /\ last' = Event("switch", 0, Null, 0, NoBody)
  /\ UNCHANGED items

\* variant: the request of the unmounted instance stays bound to the panel
\* state, as if that state were kept above the panels
SwitchTabKeepsPending(t) ==
  /\ t # activeTab
  /\ pending + orphans["recipe"] + orphans["menu"] <= MaxOrphans
  /\ activeTab' = t
  /\ items' = <<>>
  /\ newItem' = <<>>
  /\ modifier' = ""
  /\ result' = Null
  /\ loading' = FALSE
  /\ error' = ""
  /\ last' = Event("switch", 0, Null, 0, NoBody)
  /\ UNCHANGED <<pending, orphans>>

\* setActiveTab(t): the other component is mounted with fresh useState cells;
\* the requests of the unmounted instance stay in flight
SwitchTab(t) ==
  /\ t # activeTab
  /\ pending + orphans["recipe"] + orphans["menu"] <= MaxOrphans
  /\ activeTab' = t
  /\ items' = <<>>
  /\ newItem' = <<>>
  /\ modifier' = ""
  /\ result' = Null
  /\ loading' = FALSE
  /\ error' = ""
  /\ pending' = 0
  /\ orphans' = [orphans EXCEPT ![activeTab] = @ + pending]
  /\ last' = Event("switch", 0, Null, 0, NoBody)

\* a request of an unmounted instance completes or fails: its setters act on
\* the unmounted instance and change nothing that is rendered
OrphanSettles(t) ==
  /\ orphans[t] > 0
  /\ orphans' = [orphans EXCEPT ![t] = @ - 1]
  /\ last' = Event("orphan", 0, Null, 0, NoBody)
  /\ UNCHANGED <<activeTab, items, newItem, modifier, result, loading, error, pending>>

\* ------------------------------------------------------------- the controls
\* the submit button calls the handler unless it is disabled
ClickGenerate == ~SubmitDisabled /\ generateRecipe

ClickAnalyze == ~SubmitDisabled /\ analyzeMenu

\* one remove button is rendered per item, with that item's position
ClickRemoveIngredient == \E i \in 0..(Len(items) - 1) : removeIngredient(i)

ClickRemoveMenuItem == \E i \in 0..(Len(items) - 1) : removeMenuItem(i)

Typing == \E s \in Typed : SetNewItem(s)

EditModifier == \E m \in Modifiers : SetModifier(m)

Response == \E d \in Payloads : Succeed(d)

Switch == \E t \in Tabs : SwitchTab(t)

OrphanResponse == \E t \in Tabs : OrphanSettles(t)

Next ==
  \/ Typing
  \/ EditModifier
  \/ addIngredient
  \/ addMenuItem
  \/ ClickRemoveIngredient
  \/ ClickRemoveMenuItem
  \/ ClickGenerate
  \/ ClickAnalyze
  \/ Response
  \/ Fail
  \/ Switch
  \/ OrphanResponse

Spec == Init /\ [][Next]_vars

\* every pending request is eventually answered or fails
FairSpec == Spec /\ WF_vars(Response \/ Fail) /\ WF_vars(OrphanResponse)

\* ------------------------------------------- the handlers called directly
\* the handlers as functions: called with any argument and in any state,
\* whatever the controls that normally call them allow
CallGenerate == pending < MaxPending /\ generateRecipe

CallAnalyze == pending < MaxPending /\ analyzeMenu

CallRemoveIngredient == \E i \in -1..(Len(items) + 1) : removeIngredient(i)

CallRemoveMenuItem == \E i \in -1..(Len(items) + 1) : removeMenuItem(i)

NextDirect ==
  \/ Typing
  \/ EditModifier
  \/ addIngredient
  \/ addMenuItem
  \/ CallRemoveIngredient
  \/ CallRemoveMenuItem
  \/ CallGenerate
  \/ CallAnalyze
  \/ Response
  \/ Fail
  \/ Switch
  \/ OrphanResponse

SpecDirect == Init /\ [][NextDirect]_vars

\* ====================================================================
\* Properties
\* ====================================================================
ExactlyOne == (result # Null) # (error # "")

\* requests in flight that panel t issued, whatever instance issued them
InFlight(t) == orphans[t] + (IF activeTab = t THEN pending ELSE 0)

InFlightTotal == pending + orphans["recipe"] + orphans["menu"]

\* C1: a run of the submit handler on an empty collection sends no POST,
\* leaves the loading flag as it was (it never starts loading) and sets the
\* error to the panel's validation text; a panel that was not loading then
\* shows status error.
C1_EmptySubmitRejected ==
  [][(last'.op = "submit" /\ Len(items) = 0) =>
       /\ last'.sent = 0
       /\ InFlightTotal' = InFlightTotal
       /\ loading' = loading
       /\ error' = (IF activeTab = "recipe"
                    THEN "Please add at least one ingredient"
                    ELSE "Please add at least one menu item")
       /\ (~loading => Status' = "error")]_vars

C1_Witness ==
  /\ last.op = "submit" /\ last.sent = 0
  /\ Len(items) = 0 /\ ~loading /\ pending = 0
  /\ activeTab = "menu" /\ error = "Please add at least one menu item"

\* C2: outside idle and loading exactly one of result and error is
\* populated: never both in any state, and every step that leaves the panel
\* not loading, from a panel that was loading or already showed a result or
\* an error, leaves exactly one of them populated.
C2_ExactlyOneOutcome ==
  /\ [](Status \notin {"idle", "loading"} => ExactlyOne)
  /\ [][(Status # "idle" /\ last'.op # "switch" /\ ~loading') => ExactlyOne']_vars

C2_Witness ==
  /\ last.op = "failure" /\ ~loading
  /\ result = Null /\ error # "" /\ activeTab = "menu"

\* C3 as stated: each panel (recipe, menu) has at most one request in flight.
C3_OnePerPanel == \A t \in Tabs : InFlight(t) <= 1

\* C3 amended: the mounted panel instance has at most one request of its own
\* in flight, and while it has one it is loading and its submit button is
\* disabled.
C3_OnePerInstance ==
  /\ pending <= 1
  /\ (pending = 1 => loading /\ SubmitDisabled)
  /\ (loading => pending = 1)

C3_Witness ==
  /\ pending = 1 /\ loading /\ Len(items) > 0
  /\ orphans[activeTab] = 1

\* C4: a run of the submit handler on a non-empty collection sets loading,
\* clears result and error and sends exactly one POST to the panel's
\* endpoint with the collection; no other step sends a POST or adds a
\* request in flight.
C4_OnePostPerSubmit ==
  [][/\ (last'.op = "submit" /\ Len(items) > 0) =>
          /\ loading' /\ result' = Null /\ error' = ""
          /\ last'.sent = 1
          /\ InFlightTotal' = InFlightTotal + 1
          /\ last'.body.url = Endpoint(activeTab)
          /\ last'.body.items = items
     /\ (last'.op # "submit") =>
          /\ last'.sent = 0
          /\ InFlightTotal' <= InFlightTotal]_vars

C4_Witness ==
  /\ last.op = "submit" /\ last.sent = 1
  /\ loading /\ pending = 1 /\ result = Null /\ error = ""

\* C5: right after the pending request failed the panel is not loading, shows
\* status error with the panel's fixed failure message, and has no result.
C5_FailureShown ==
  last.op = "failure" =>
    /\ ~loading
    /\ Status = "error"
    /\ error = (IF activeTab = "recipe"
                THEN "Failed to generate recipe. Please try again."
                ELSE "Failed to analyze menu. Please try again.")
    /\ result = Null

C5_Witness ==
  /\ last.op = "failure" /\ activeTab = "menu"
  /\ error = "Failed to analyze menu. Please try again."

\* C6: right after the pending request succeeded the result is the payload
\* of the response, the error is empty, loading is false and the status is
\* success.
C6_SuccessStored ==
  last.op = "success" =>
    /\ result = last.data
    /\ error = ""
    /\ ~loading
    /\ Status = "success"

C6_Witness == last.op = "success" /\ result = "R2" /\ activeTab = "menu"

\* C7: add leaves collection and input unchanged when the trimmed input is
\* empty or already in the collection; otherwise it appends the trimmed input
\* (no leading or trailing blank) after the existing items, which keep their
\* places, and clears the input.
NoOuterBlank(s) == s # <<>> /\ s[1] # " " /\ s[Len(s)] # " "

C7_Add ==
  [][(last'.op = "add") =>
       IF Trim(newItem) = <<>> \/ (\E k \in 1..Len(items) : items[k] = Trim(newItem))
       THEN items' = items /\ newItem' = newItem
       ELSE /\ Len(items') = Len(items) + 1
            /\ \A k \in 1..Len(items) : items'[k] = items[k]
            /\ items'[Len(items')] = Trim(newItem)
            /\ NoOuterBlank(items'[Len(items')])
            /\ newItem' = <<>>]_vars

\* an add refused because the trimmed input is already in the collection
C7_Witness ==
  /\ last.op = "add"
  /\ newItem # Trim(newItem) /\ Trim(newItem) # <<>>
  /\ Includes(items, Trim(newItem))
  /\ Len(items) >= 2

\* C8: remove with a position inside the collection drops that element and
\* keeps the others in order; with a position outside it changes nothing.
C8_Remove ==
  [][(last'.op = "remove") =>
       LET i == last'.idx
           n == Len(items)
       IN IF 0 <= i /\ i < n
          THEN /\ Len(items') = n - 1
               /\ \A k \in 1..i : items'[k] = items[k]
               /\ \A k \in (i + 1)..(n - 1) : items'[k] = items[k + 1]
          ELSE items' = items]_vars

\* a remove with a position past the end of a collection of two or more
C8_Witness == last.op = "remove" /\ last.idx > Len(items) /\ Len(items) >= 2

\* C9 as stated: an empty modifier is sent as null by both panels.
C9_BlankIsNull ==
  (last.op = "submit" /\ last.sent = 1 /\ modifier = "") =>
    last.body.modifier = JsonNull

\* C9 amended: a non-empty modifier (blanks only included) is sent as
\* entered; an empty one is sent as null by the recipe panel and as the text
\* 'Restaurant' by the menu panel.
C9_ModifierSent ==
  (last.op = "submit" /\ last.sent = 1) =>
    /\ (modifier # "" => last.body.modifier = [tag |-> "string", text |-> modifier])
    /\ (modifier = "" /\ activeTab = "recipe" =>
          last.body.modifier = [tag |-> "null", text |-> ""])
    /\ (modifier = "" /\ activeTab = "menu" =>
          last.body.modifier = [tag |-> "string", text |-> "Restaurant"])

C9_Witness ==
  /\ last.op = "submit" /\ last.sent = 1
  /\ activeTab = "menu" /\ modifier = ""
  /\ last.body.modifier.text = "Restaurant"

\* C10: after a failed request loading is false, the submit button of a
\* non-empty collection is enabled and the next submission sends a POST; and
\* a loading panel eventually stops loading.
C10_Recoverable ==
  /\ [](last.op = "failure" =>
          /\ ~loading
          /\ (Len(items) > 0 => ~SubmitDisabled /\ ENABLED (ClickGenerate \/ ClickAnalyze)))
  /\ [][(last.op = "failure" /\ last'.op = "submit") =>
          last'.sent = 1 /\ pending' = 1]_vars
  /\ (loading ~> ~loading)

C10_Witness ==
  /\ last.op = "failure" /\ ~loading /\ Len(items) > 0
  /\ ~SubmitDisabled /\ activeTab = "menu"

\* C11: right after a tab switch the mounted panel is the other one and is
\* fresh: empty collection, empty input and modifier, no result, no error,
\* not loading, status idle; so a panel switched away from and back to has
\* lost whatever it held.
C11_SwitchResets ==
  last.op = "switch" =>
    /\ items = <<>> /\ newItem = <<>> /\ modifier = ""
    /\ result = Null /\ error = "" /\ ~loading
    /\ Status = "idle"

\* the recipe panel switched back to, while the request it sent before the
\* first switch is still pending
C11_Witness ==
  /\ last.op = "switch" /\ activeTab = "recipe"
  /\ orphans["recipe"] = 1 /\ items = <<>> /\ Status = "idle"

\* C13: a request of an unmounted instance that completes or fails changes
\* nothing of the mounted panel, and a panel with no result, no error and
\* loading false stays so through every step but a submission of its own.
C13_OrphanIgnored ==
  [][/\ (last'.op = "orphan") =>
          UNCHANGED <<activeTab, items, newItem, modifier, result, loading, error, pending>>
     /\ (Status = "idle" /\ last'.op # "submit") => Status' = "idle"]_vars

\* the old request settles while the new instance's own request is in flight
C13_Witness == last.op = "orphan" /\ pending = 1 /\ loading /\ result = Null

\* C12 as stated: the badge of a displayed result has the green class and the
\* success icon for green, the yellow class and the warning icon for yellow,
\* the red class for red, and for every other score the gray class and an
\* icon of its own, used for none of green, yellow and red.
C12_ScoreMapping ==
  result # Null =>
    LET score == EcoScore(result)
    IN /\ score = "green" =>
            /\ ShownColor = "text-green-600 bg-green-100"
            /\ ShownIcon = (IF activeTab = "recipe" THEN "emoji white check mark"
                            ELSE "CheckCircle")
       /\ score = "yellow" =>
            /\ ShownColor = "text-yellow-600 bg-yellow-100"
            /\ ShownIcon = (IF activeTab = "recipe" THEN "emoji warning sign"
                            ELSE "AlertCircle")
       /\ score = "red" => ShownColor = "text-red-600 bg-red-100"
       /\ score \notin {"green", "yellow", "red"} =>
            /\ ShownColor = "text-gray-600 bg-gray-100"
            /\ \A known \in {"green", "yellow", "red"} :
                 ShownIcon # getScoreIcon(activeTab, known)

====
